---- MODULE Spec2Model ----
(***************************************************************************)
(* Model of the wake cycle of the ESP32 accelerometer monitor              *)
(* (src/src/main.cpp): setup() as a sequence of steps, the fixed-rate      *)
(* sampler acquireN, the RMS gate, the CBOR encoders and the publish       *)
(* sequence, the failure signal and the provisioning portal.               *)
(*                                                                         *)
(* Numbers wider than 31 bits (uint64 epoch, double sum of squares) are    *)
(* kept exactly as little-endian sequences of base-1000 limbs.  Strings    *)
(* are TLA+ strings.  Accelerations read from the sensor are integers in   *)
(* mm/s^2, the RMS and the threshold are integers in um/s^2 (the model     *)
(* computes the exact real value and drops binary float rounding).         *)
(***************************************************************************)
EXTENDS Integers, Sequences, FiniteSets, TLC

\* ------------------------------------------------------------------------
\* Exact arithmetic on naturals as little-endian base-1000 limb sequences
\* ------------------------------------------------------------------------
Max2(a, b) == IF a >= b THEN a ELSE b

Min2(a, b) == IF a <= b THEN a ELSE b

RECURSIVE BigCarry(_, _)
BigCarry(s, c) ==
  IF s = <<>>
  THEN IF c = 0 THEN <<>> ELSE BigCarry(<<c>>, 0)
  ELSE <<(s[1] + c) % 1000>> \o BigCarry(Tail(s), (s[1] + c) \div 1000)

BigOfNat(n) == BigCarry(<<n>>, 0)

BigLimb(a, i) == IF i <= Len(a) THEN a[i] ELSE 0

BigAdd(a, b) ==
  BigCarry([i \in 1..Max2(Len(a), Len(b)) |-> BigLimb(a, i) + BigLimb(b, i)], 0)

RECURSIVE BigBorrow(_, _)
\* the limbs s[k] in -1000..999 with borrow c in, normalised to 0..999
BigBorrow(s, c) ==
  IF s = <<>> THEN <<>>
  ELSE <<(s[1] - c + 1000) % 1000>> \o BigBorrow(Tail(s), IF s[1] - c < 0 THEN 1 ELSE 0)

\* a - b for a >= b
BigSub(a, b) ==
  BigBorrow([k \in 1..Max2(Len(a), Len(b)) |-> BigLimb(a, k) - BigLimb(b, k)], 0)

\* k * 1000 must stay below 2^31
BigMulSmall(a, k) == BigCarry([i \in 1..Len(a) |-> a[i] * k], 0)

RECURSIVE BigMul(_, _)
BigMul(a, b) ==
  IF b = <<>> THEN <<>>
  ELSE BigAdd(BigMulSmall(a, b[1]),
              IF Len(b) = 1 THEN <<>> ELSE <<0>> \o BigMul(a, Tail(b)))

RECURSIVE BigCmpFrom(_, _, _)
\* -1, 0, 1 comparing limbs i, i-1, ..., 1
BigCmpFrom(a, b, i) ==
  IF i = 0 THEN 0
  ELSE IF BigLimb(a, i) < BigLimb(b, i) THEN -1
  ELSE IF BigLimb(a, i) > BigLimb(b, i) THEN 1
  ELSE BigCmpFrom(a, b, i - 1)

BigCmp(a, b) == BigCmpFrom(a, b, Max2(Len(a), Len(b)))

BigLess(a, b) == BigCmp(a, b) < 0

BigLeq(a, b) == BigCmp(a, b) <= 0

RECURSIVE BigToNat(_)
BigToNat(a) == IF a = <<>> THEN 0 ELSE a[1] + 1000 * BigToNat(Tail(a))

RECURSIVE BigDivFrom(_, _, _, _)
\* long division by a small d: <<quotient limbs i..1 (little-endian), remainder>>
BigDivFrom(a, d, i, r) ==
  IF i = 0 THEN <<<<>>, r>>
  ELSE LET cur  == r * 1000 + a[i]
           rest == BigDivFrom(a, d, i - 1, cur % d)
       IN  <<rest[1] \o <<cur \div d>>, rest[2]>>

BigDivSmall(a, d) == BigDivFrom(a, d, Len(a), 0)

RECURSIVE BigTrim(_)
BigTrim(a) ==
  IF a # <<>> /\ a[Len(a)] = 0 THEN BigTrim(SubSeq(a, 1, Len(a) - 1)) ELSE a

\* ------------------------------------------------------------------------
\* Decimal text
\* ------------------------------------------------------------------------
Digit == <<"0", "1", "2", "3", "4", "5", "6", "7", "8", "9">>

RECURSIVE NatStr(_)
NatStr(n) == IF n < 10 THEN Digit[n + 1] ELSE NatStr(n \div 10) \o Digit[(n % 10) + 1]

RECURSIVE PadStr(_, _)
\* n printed in at least w digits, zero padded ("%0wu")
PadStr(n, w) == IF w <= 1 THEN NatStr(n)
                ELSE IF Len(NatStr(n)) >= w THEN NatStr(n)
                ELSE "0" \o PadStr(n, w - 1)

RECURSIVE BigStrFrom(_, _)
BigStrFrom(a, i) == IF i = 0 THEN "" ELSE PadStr(a[i], 3) \o BigStrFrom(a, i - 1)

\* "%lu" / "%llu" of a limb sequence
BigStr(a) ==
  LET t == BigTrim(a)
  IN  IF t = <<>> THEN "0"
      ELSE NatStr(t[Len(t)]) \o BigStrFrom(t, Len(t) - 1)

\* ------------------------------------------------------------------------
\* Text helpers (Arduino String / libc)
\* ------------------------------------------------------------------------
Ch(s, i) == SubSeq(s, i, i)

IsSpaceCh(c) == c = " "

IsDigitCh(c) == \E d \in 1..10 : Digit[d] = c

DigitVal(c) == (CHOOSE d \in 1..10 : Digit[d] = c) - 1

RECURSIVE TrimLeft(_)
TrimLeft(s) == IF Len(s) > 0 /\ IsSpaceCh(Ch(s, 1)) THEN TrimLeft(SubSeq(s, 2, Len(s))) ELSE s

RECURSIVE TrimRight(_)
TrimRight(s) ==
  IF Len(s) > 0 /\ IsSpaceCh(Ch(s, Len(s))) THEN TrimRight(SubSeq(s, 1, Len(s) - 1)) ELSE s

\* String::trim()
Trim(s) == TrimRight(TrimLeft(s))

RECURSIVE ParseDigits(_, _, _)
\* value of the leading digits of s from position i on, saturating at cap
ParseDigits(s, i, acc) ==
  IF i > Len(s) \/ ~IsDigitCh(Ch(s, i)) THEN acc
  ELSE ParseDigits(s, i + 1, Min2(acc * 10 + DigitVal(Ch(s, i)), 100000000))

\* strtoul(v, nullptr, 10) as used by the form parsers: leading digits, 0
\* when there are none; a leading '-' negates modulo 2^32, which every
\* caller clamps to its maximum, so the model returns a value above every
\* maximum (100000000) for "-<digits>" with a non-zero value.
StrToUL(s) ==
  LET t == TrimLeft(s)
  IN  IF Len(t) > 0 /\ Ch(t, 1) = "-"
      THEN IF ParseDigits(t, 2, 0) = 0 THEN 0 ELSE 100000000
      ELSE IF Len(t) > 0 /\ Ch(t, 1) = "+" THEN ParseDigits(t, 2, 0)
      ELSE ParseDigits(t, 1, 0)

RECURSIVE CountDigits(_, _)
CountDigits(s, i) ==
  IF i > Len(s) \/ ~IsDigitCh(Ch(s, i)) THEN 0 ELSE 1 + CountDigits(s, i + 1)

RECURSIVE Pow10(_)
Pow10(k) == IF k <= 0 THEN 1 ELSE 10 * Pow10(k - 1)

\* atof(v) scaled to um/s^2 (6 decimals kept): [sign]digits[.digits]
AToFMicro(s) ==
  LET t    == TrimLeft(s)
      neg  == Len(t) > 0 /\ Ch(t, 1) = "-"
      b    == IF Len(t) > 0 /\ (Ch(t, 1) = "-" \/ Ch(t, 1) = "+") THEN 2 ELSE 1
      nint == CountDigits(t, b)
      ip   == Min2(ParseDigits(t, b, 0), 2000)
      dot  == b + nint <= Len(t) /\ Ch(t, b + nint) = "."
      nfr  == IF dot THEN Min2(CountDigits(t, b + nint + 1), 6) ELSE 0
      fr   == IF nfr = 0 THEN 0
              ELSE ParseDigits(SubSeq(t, b + nint + 1, b + nint + nfr), 1, 0) * Pow10(6 - nfr)
      mag  == ip * 1000000 + fr
  IN  IF neg THEN 0 - mag ELSE mag

\* ------------------------------------------------------------------------
\* Program constants
\* ------------------------------------------------------------------------
META_BUF_SIZE == 512

BLOB_BUF_SIZE == 1400

SAMPLE_BUF_LEN == 2000

ID_MSG_LEN == 64

FAIL_TOTAL_MS == 15000

FAIL_CYCLE_MS == 3000

DT_SAT == 65535

\* ------------------------------------------------------------------------
\* Sensor conversion and little-endian packing
\* ------------------------------------------------------------------------
\* lroundf(|a| / 9.80665) for a in mm/s^2: round(|a| * 40000 / 392266),
\* computed in two steps to stay below 2^31
RoundMg(a) ==
  LET y == a * 400
  IN  (y \div 392266) * 100 + (((y % 392266) * 100 + 196133) \div 392266)

mps2_to_mg(a_mmps2) ==
  LET v == IF a_mmps2 >= 0 THEN RoundMg(a_mmps2) ELSE 0 - RoundMg(0 - a_mmps2)
  IN  IF v > 32767 THEN 32767 ELSE IF v < -32768 THEN -32768 ELSE v

\* variant: high byte first
put_u16_le_BigEndian(v) == <<(v \div 256) % 256, v % 256>>

put_u16_le(v) == <<v % 256, (v \div 256) % 256>>

put_i16_le(v) == put_u16_le((v + 65536) % 65536)

\* variant: the entries are packed last to first
PackU16_Reversed(buf, count) ==
  [k \in 0..(2 * count - 1) |-> put_u16_le(buf[count - 1 - (k \div 2)])[(k % 2) + 1]]

\* bytes 2i, 2i+1 of the packing buffer hold entry i, for i < count
PackU16(buf, count) ==
  [k \in 0..(2 * count - 1) |-> put_u16_le(buf[k \div 2])[(k % 2) + 1]]

PackI16(buf, count) ==
  [k \in 0..(2 * count - 1) |-> put_i16_le(buf[k \div 2])[(k % 2) + 1]]

\* the first len bytes of a packing buffer, as handed to the encoder
BlobBytes(bytes, len) == [k \in 1..len |-> bytes[k - 1]]

\* ------------------------------------------------------------------------
\* Wall clock values (uint64 microseconds, as limbs)
\* ------------------------------------------------------------------------
\* (uint64_t)tv_sec * 1000000 + tv_usec
EpochUs(sec, usec) == <<usec % 1000, usec \div 1000>> \o BigOfNat(sec)

EpochSeconds(e) == BigToNat(SubSeq(e, 3, Len(e)))

EpochMicros(e) == BigLimb(e, 1) + 1000 * BigLimb(e, 2)

\* e & 0xFFFFFFFF, as the pair <<high 16 bits, low 16 bits>>
Low32(e) ==
  LET d1 == BigDivSmall(e, 65536)
      d2 == BigDivSmall(d1[1], 65536)
  IN  <<d2[2], d1[2]>>

Low32Big(e) == BigAdd(BigMulSmall(BigOfNat(Low32(e)[1]), 65536), BigOfNat(Low32(e)[2]))

Two32 == BigAdd(BigMulSmall(BigOfNat(65536), 65536), <<>>)

\* snprintf(out, out_len, ...): at most out_len - 1 characters are kept
SnTrunc(s, out_len) == IF Len(s) > out_len - 1 THEN SubSeq(s, 1, out_len - 1) ELSE s

\* variant: all 64 bits of epoch_us0 are printed
makeIdMsg_AllBits(client_id, out_len, epoch_us0) ==
  SnTrunc(client_id \o "-" \o BigStr(epoch_us0), out_len)

makeIdMsg(client_id, out_len, epoch_us0) ==
  SnTrunc(client_id \o "-" \o BigStr(Low32Big(epoch_us0)), out_len)

\* gmtime_r + strftime("%Y-%m-%dT%H:%M:%SZ")
formatISO8601UTC(t) ==
  LET days == t \div 86400
      rem  == t % 86400
      z    == days + 719468
      era  == z \div 146097
      doe  == z - era * 146097
      yoe  == (doe - doe \div 1460 + doe \div 36524 - doe \div 146096) \div 365
      doy  == doe - (365 * yoe + yoe \div 4 - yoe \div 100)
      mp   == (5 * doy + 2) \div 153
      d    == doy - (153 * mp + 2) \div 5 + 1
      m    == IF mp < 10 THEN mp + 3 ELSE mp - 9
      y    == yoe + era * 400 + (IF m <= 2 THEN 1 ELSE 0)
  IN  PadStr(y, 4) \o "-" \o PadStr(m, 2) \o "-" \o PadStr(d, 2) \o "T"
      \o PadStr(rem \div 3600, 2) \o ":" \o PadStr((rem % 3600) \div 60, 2) \o ":"
      \o PadStr(rem % 60, 2) \o "Z"

formatISO8601UTC_us(epoch_us, out_len) ==
  LET base == formatISO8601UTC(EpochSeconds(epoch_us))
      n    == Len(base)
  IN  IF n < 2 \/ Ch(base, n) # "Z" THEN SnTrunc(base, out_len)
      ELSE SnTrunc(SubSeq(base, 1, n - 1) \o "." \o PadStr(EpochMicros(epoch_us), 6) \o "Z",
                   out_len)

\* ------------------------------------------------------------------------
\* RMS magnitude
\* ------------------------------------------------------------------------
RECURSIVE SumSqRange(_, _, _, _, _)
\* sum over lo..hi of ax^2 + ay^2 + az^2 (mg^2), exact
SumSqRange(ax, ay, az, lo, hi) ==
  IF lo > hi THEN <<>>
  ELSE IF lo = hi
  THEN BigAdd(BigOfNat(ax[lo] * ax[lo]),
              BigAdd(BigOfNat(ay[lo] * ay[lo]), BigOfNat(az[lo] * az[lo])))
  ELSE LET mid == (lo + hi) \div 2
       IN  BigAdd(SumSqRange(ax, ay, az, lo, mid), SumSqRange(ax, ay, az, mid + 1, hi))

G0SqE10 == BigMul(BigOfNat(980665), BigOfNat(980665))

RECURSIVE RmsSearch(_, _, _, _)
\* greatest r in lo..hi with r^2 * N * 10^4 <= sumsq * 980665^2
RmsSearch(sumsq_g, N, lo, hi) ==
  IF lo >= hi THEN lo
  ELSE LET mid == (lo + hi + 1) \div 2
           lhs == BigMulSmall(BigMulSmall(BigMul(BigOfNat(mid), BigOfNat(mid)), N), 10000)
       IN  IF BigLeq(lhs, sumsq_g) THEN RmsSearch(sumsq_g, N, mid, hi)
           ELSE RmsSearch(sumsq_g, N, lo, mid - 1)

\* variant: the sum of squares is not divided by N
computeMagRms_NoMean(ax_mg, ay_mg, az_mg, N) ==
  RmsSearch(BigMul(SumSqRange(ax_mg, ay_mg, az_mg, 0, N - 1), G0SqE10), 1, 0, 1000000000)

\* sqrt(mean((mg / 1000 * 9.80665)^2)) in um/s^2, rounded down
computeMagRms_mps2(ax_mg, ay_mg, az_mg, N) ==
  RmsSearch(BigMul(SumSqRange(ax_mg, ay_mg, az_mg, 0, N - 1), G0SqE10), N, 0, 1000000000)

\* ------------------------------------------------------------------------
\* CBOR encoded sizes (TinyCBOR: head of 1, 2, 3, 5 or 9 bytes)
\* ------------------------------------------------------------------------
CborUintLen(v) ==
  IF v < 24 THEN 1 ELSE IF v < 256 THEN 2 ELSE IF v < 65536 THEN 3 ELSE 5

CborUintLenBig(b) ==
  IF ~BigLess(b, Two32) THEN 9
  ELSE IF Len(BigTrim(b)) > 2 THEN 5
  ELSE CborUintLen(BigToNat(BigTrim(b)))

CborTextLen(str) == CborUintLen(Len(str)) + Len(str)

CborBytesLen(len) == CborUintLen(len) + len

\* bytes the 12-pair meta map needs
MetaEncodedSize(m) ==
  1 + CborTextLen("type") + CborTextLen(m.type)
    + CborTextLen("id") + CborTextLen(m.id)
    + CborTextLen("dev") + CborTextLen(m.dev)
    + CborTextLen("ip") + CborTextLen(m.ip)
    + CborTextLen("ntp") + CborUintLen(m.ntp)
    + CborTextLen("epoch_s") + CborUintLen(m.epoch_s)
    + CborTextLen("iso") + CborTextLen(m.iso)
    + CborTextLen("t0_us") + CborUintLenBig(m.t0_us)
    + CborTextLen("n") + CborUintLen(m.n)
    + CborTextLen("fs") + CborUintLen(m.fs)
    + CborTextLen("dt_fmt") + CborTextLen(m.dt_fmt)
    + CborTextLen("a_fmt") + CborTextLen(m.a_fmt)

\* bytes the 5-pair blob map needs
BlobEncodedSize(b) ==
  1 + CborTextLen("type") + CborTextLen(b.type)
    + CborTextLen("id") + CborTextLen(b.id)
    + CborTextLen("idx") + CborUintLen(b.idx)
    + CborTextLen("parts") + CborUintLen(b.parts)
    + CborTextLen(b.key) + CborBytesLen(Len(b.payload))

\* every cbor_encode_* call returned CborNoError: the map fits buf
MetaEncodes(m) == MetaEncodedSize(m) <= META_BUF_SIZE

BlobEncodes(b) == BlobEncodedSize(b) <= BLOB_BUF_SIZE

\* ------------------------------------------------------------------------
\* Configuration: struct Config, /config.json, the provisioning form
\* ------------------------------------------------------------------------
\* struct Config member initialisers
DefaultCfg ==
  [client_id |-> "", wifi_ssid |-> "", mqtt_host |-> "", range_g |-> 24,
   ntp_timeout_s |-> 15, n_samples |-> 500, fs_hz |-> 1000,
   mag_rms_threshold |-> 10780000, sleep_s |-> 300]

CfgKeys == DOMAIN DefaultCfg

\* doc[..] | default: the stored value when the key is present, else default
JsonOr(opt, def) == IF opt = <<>> THEN def ELSE opt[1]

ToU16(v) == v % 65536

ToU8(v) == v % 256

Clamp(v, minv, maxv) == IF v < minv THEN minv ELSE IF v > maxv THEN maxv ELSE v

\* the assignments of loadConfig, before validation and clamping
AssignFromDoc(doc) ==
  [client_id |-> JsonOr(doc.client_id, "esp32s3-lis331-01"),
   wifi_ssid |-> JsonOr(doc.wifi_ssid, ""),
   mqtt_host |-> JsonOr(doc.mqtt_host, ""),
   range_g |-> ToU8(JsonOr(doc.range_g, 24)),
   ntp_timeout_s |-> ToU16(JsonOr(doc.ntp_timeout_s, 15)),
   n_samples |-> ToU16(JsonOr(doc.n_samples, 500)),
   fs_hz |-> ToU16(JsonOr(doc.fs_hz, 1000)),
   mag_rms_threshold |-> JsonOr(doc.mag_rms_threshold, 10780000),
   sleep_s |-> JsonOr(doc.sleep_s, 300)]

\* variant: n_samples and fs_hz are taken as stored
ClampLoaded_NoAcq(c) ==
  [c EXCEPT !.ntp_timeout_s = Clamp(@, 3, 60),
            !.mag_rms_threshold = Clamp(@, 0, 50000000),
            !.sleep_s = Max2(@, 5)]

\* lines 689-700
ClampLoaded(c) ==
  [c EXCEPT !.ntp_timeout_s = Clamp(@, 3, 60),
            !.n_samples = Clamp(@, 10, 2000),
            !.fs_hz = Clamp(@, 50, 2000),
            !.mag_rms_threshold = Clamp(@, 0, 50000000),
            !.sleep_s = Max2(@, 5)]

\* loadConfig(): <<return value, cfg afterwards>>
loadConfig(c, mounted, file) ==
  IF ~mounted \/ file.kind # "json" THEN <<FALSE, c>>
  ELSE LET a == AssignFromDoc(file.doc)
       IN  IF a.wifi_ssid = "" \/ a.mqtt_host = "" THEN <<FALSE, a>>
           ELSE <<TRUE, ClampLoaded(a)>>

NoDoc == [k \in CfgKeys |-> <<>>]

\* the document saveConfigToFS serialises: every key present
DocOfCfg(c) == [k \in CfgKeys |-> <<c[k]>>]

\* saveConfigToFS(): <<return value, /config.json afterwards>>
saveConfigToFS(c, file, outcome) ==
  IF outcome \in {"mount_fail", "open_fail", "serialize_fail"} THEN <<FALSE, file>>
  ELSE IF outcome = "rename_fail" THEN <<FALSE, [kind |-> "missing", doc |-> NoDoc]>>
  ELSE <<TRUE, [kind |-> "json", doc |-> DocOfCfg(c)]>>

Provided(arg) == arg # <<>> /\ Trim(arg[1]) # ""

applyIfProvided(arg, target) == IF Provided(arg) THEN Trim(arg[1]) ELSE target

applyUIntIfProvided(arg, target, minv, maxv) ==
  IF Provided(arg) THEN Clamp(StrToUL(Trim(arg[1])), minv, maxv) ELSE target

applyU16IfProvided(arg, target, minv, maxv) ==
  ToU16(applyUIntIfProvided(arg, target, minv, maxv))

applyU8IfProvided(arg, target, minv, maxv) ==
  ToU8(applyUIntIfProvided(arg, target, minv, maxv))

applyFloatIfProvided(arg, target, minv, maxv) ==
  IF Provided(arg) THEN Clamp(AToFMicro(Trim(arg[1])), minv, maxv) ELSE target

\* the field updates of handleSave, range_g normalisation included
ApplyForm(c, form) ==
  LET r == applyU8IfProvided(form.range_g, c.range_g, 6, 24)
  IN  [client_id |-> applyIfProvided(form.client_id, c.client_id),
       wifi_ssid |-> applyIfProvided(form.wifi_ssid, c.wifi_ssid),
       mqtt_host |-> applyIfProvided(form.mqtt_host, c.mqtt_host),
       range_g |-> IF r # 6 /\ r # 12 /\ r # 24 THEN 24 ELSE r,
       ntp_timeout_s |-> applyU16IfProvided(form.ntp_timeout_s, c.ntp_timeout_s, 3, 60),
       n_samples |-> applyU16IfProvided(form.n_samples, c.n_samples, 10, 2000),
       fs_hz |-> applyU16IfProvided(form.fs_hz, c.fs_hz, 50, 2000),
       mag_rms_threshold |->
         applyFloatIfProvided(form.mag_rms_threshold, c.mag_rms_threshold, 0, 50000000),
       sleep_s |-> applyUIntIfProvided(form.sleep_s, c.sleep_s, 5, 86400)]

\* ------------------------------------------------------------------------
\* Inputs: stored files, form submissions, clock and sensor behaviour
\* ------------------------------------------------------------------------
StallAt == 3

LongIdLen == 70

HugeIdLen == 320

RECURSIVE Rep(_, _)
Rep(c, k) ==
  IF k <= 0 THEN "" ELSE IF k = 1 THEN c ELSE Rep(c, k \div 2) \o Rep(c, k - k \div 2)

Doc(fields) == [k \in CfgKeys |-> IF k \in DOMAIN fields THEN <<fields[k]>> ELSE <<>>]

Net == [wifi_ssid |-> "lab", mqtt_host |-> "broker"]

StoredDocs ==
  { Doc(Net @@ [client_id |-> "node7", n_samples |-> 3, fs_hz |-> 10,
                mag_rms_threshold |-> 9806650, sleep_s |-> 0]),
    Doc(Net @@ [n_samples |-> 700, fs_hz |-> 100]),
    Doc(Net @@ [n_samples |-> 3000, fs_hz |-> 5000, range_g |-> 8]),
    Doc(Net @@ [client_id |-> Rep("n", LongIdLen), n_samples |-> 12, fs_hz |-> 2000]),
    Doc(Net @@ [client_id |-> Rep("n", HugeIdLen), n_samples |-> 65546, fs_hz |-> 400]),
    Doc([wifi_ssid |-> "lab"]) }

StoredFiles ==
  { [kind |-> "missing", doc |-> NoDoc], [kind |-> "corrupt", doc |-> NoDoc] }
  \cup { [kind |-> "json", doc |-> d] : d \in StoredDocs }

NoForm == [k \in CfgKeys |-> <<>>]

Form(fields) == [k \in CfgKeys |-> IF k \in DOMAIN fields THEN <<fields[k]>> ELSE <<>>]

\* POST /save bodies
Forms ==
  { Form([wifi_ssid |-> " lab ", mqtt_host |-> "broker", client_id |-> "  ",
          n_samples |-> "12"]),
    Form([client_id |-> "node9", wifi_ssid |-> "lab", mqtt_host |-> "broker",
          n_samples |-> "5", fs_hz |-> "-1", mag_rms_threshold |-> "9.80665",
          range_g |-> "", ntp_timeout_s |-> "1", sleep_s |-> "0"]) }

SaveOutcomes == {"ok", "mount_fail", "open_fail", "serialize_fail", "rename_fail"}

LocalIPs == { "192.168.1.23" }

\* what one cycle meets: the gettimeofday() readings when sampling starts and
\* when it has ended (the first two starts agree in their low 32 bits), the
\* sensor signal, the behaviour of the sensor bus
Scenarios ==
  { [now |-> EpochUs(1790000000, 123), end_now |-> EpochUs(1790000300, 500000),
     signal |-> "rest", timing |-> "steady"],
    [now |-> EpochUs(1790004294, 967419), end_now |-> EpochUs(1790000000, 123),
     signal |-> "shake", timing |-> "stall"],
    [now |-> EpochUs(1790000300, 500000), end_now |-> EpochUs(1790004294, 967419),
     signal |-> "shake", timing |-> "steady"],
    [now |-> EpochUs(1790000000, 123), end_now |-> EpochUs(1790000300, 500000),
     signal |-> "heavy", timing |-> "steady"] }

NoScenario == [now |-> <<>>, end_now |-> <<>>, signal |-> "rest", timing |-> "steady"]

\* lis.getEvent(): acceleration of sample i in mm/s^2
SensorRead(sig, i) ==
  IF sig = "rest" THEN <<0, 0, 9807>>
  ELSE IF sig = "heavy" THEN <<0, 0, 96112>>
  ELSE <<IF i % 2 = 0 THEN 15000 ELSE -15000, -3000, 9807>>

\* microseconds past the target at which the polling loop sees the clock
PollOvershoot(tim, i) == 10 * (i % 3)

\* microseconds lis.getEvent() takes for sample i
ReadDuration(tim, i) == IF tim = "stall" /\ i = StallAt THEN 70000 ELSE 300

\* ------------------------------------------------------------------------
\* State
\* ------------------------------------------------------------------------
VARIABLES
  fs_config,         \* /config.json
  fs_ca,             \* the CA file exists
  pc,                \* position in setup()
  cfg,               \* static Config cfg
  portal_saved,
  ntp_ok,
  N, i, mono, t0_rel_us, last_t_us, period_us, dt_sum_us, epoch_us0,
  env,               \* the scenario this cycle's acquisition runs in
  dt_us_buf, ax_mg_buf, ay_mg_buf, az_mg_buf,
  t0_s, iso_us, epoch_us_end_now, mag_rms,
  id_msg, dt_bytes, x_bytes, y_bytes, z_bytes,
  sent,              \* messages handed to mqtt.publish, in order
  pub_log,           \* one entry per publish*Cbor call: type, encoded, ok
  red_blinks, fail_at, fail_ms,
  sleep_for,
  acq_starts,        \* times acquireN passed its N check since power-on
  calls,             \* external calls made by the last step
  arg,               \* arguments of a function applied on its own (UnitSpec)
  ret,               \* what that function returned
  wait_ms            \* millis() - t0 of the wait loop in progress (LiveSpec)

persistent == <<fs_config, fs_ca>>

acqvars == <<N, i, mono, t0_rel_us, last_t_us, period_us, dt_sum_us, epoch_us0,
             env, dt_us_buf, ax_mg_buf, ay_mg_buf, az_mg_buf, acq_starts>>

postvars == <<t0_s, iso_us, epoch_us_end_now, mag_rms>>

pubvars == <<id_msg, dt_bytes, x_bytes, y_bytes, z_bytes, sent, pub_log>>

failvars == <<red_blinks, fail_at, fail_ms>>

unitvars == <<arg, ret>>

vars == <<persistent, pc, cfg, portal_saved, ntp_ok, acqvars, postvars, pubvars,
          failvars, sleep_for, calls, unitvars, wait_ms>>

\* RAM after power-on reset or deep-sleep wake
PowerOnState ==
  /\ pc = "mountFS"
  /\ cfg = DefaultCfg
  /\ portal_saved = FALSE
  /\ ntp_ok = FALSE
  /\ N = 0 /\ i = 0 /\ mono = 0 /\ t0_rel_us = 0 /\ last_t_us = 0 /\ period_us = 0
  /\ dt_sum_us = 0 /\ epoch_us0 = <<>>
  /\ env = NoScenario
  /\ dt_us_buf = <<>> /\ ax_mg_buf = <<>> /\ ay_mg_buf = <<>> /\ az_mg_buf = <<>>
  /\ t0_s = 0 /\ iso_us = "" /\ epoch_us_end_now = <<>> /\ mag_rms = 0
  /\ id_msg = "" /\ dt_bytes = <<>> /\ x_bytes = <<>> /\ y_bytes = <<>> /\ z_bytes = <<>>
  /\ sent = <<>> /\ pub_log = <<>>
  /\ red_blinks = 0 /\ fail_at = "none" /\ fail_ms = 0
  /\ sleep_for = 0
  /\ acq_starts = 0
  /\ calls = {}

Init ==
  /\ fs_config \in StoredFiles
  /\ fs_ca \in BOOLEAN
  /\ PowerOnState
  /\ arg = <<>> /\ ret = <<>>
  /\ wait_ms = 0

\* ------------------------------------------------------------------------
\* failAndRestart and the two ways RAM is lost
\* ------------------------------------------------------------------------
FailSites == {"mountFS", "portal", "loadConfig", "loadCA", "connectWiFi", "syncTimeNTP",
              "connectMQTT", "initLIS331", "acquireN"}

\* the argument of failAndRestart at each call site of setup()
RedBlinks(site) ==
  CASE site = "connectWiFi" -> 1
    [] site = "syncTimeNTP" -> 2
    [] site = "connectMQTT" -> 3
    [] site \in {"initLIS331", "acquireN"} -> 4
    [] OTHER -> 5

\* call of failAndRestart from the step named site
Fail(site) ==
  /\ pc' = "failAndRestart"
  /\ red_blinks' = RedBlinks(site)
  /\ fail_at' = site
  /\ fail_ms' = 0

\* one pass of the signalling loop: the blinks, then the wait to 3 s
FailSignal ==
  /\ pc = "failAndRestart"
  /\ fail_ms < FAIL_TOTAL_MS
  /\ fail_ms' = fail_ms + Max2(red_blinks * 400, FAIL_CYCLE_MS)
  /\ calls' = {"pixelBlink", "delay"}
  /\ UNCHANGED <<persistent, pc, cfg, portal_saved, ntp_ok, acqvars, postvars, pubvars,
                 red_blinks, fail_at, sleep_for>>
  /\ UNCHANGED unitvars
  /\ wait_ms' = 0

\* variant: the failure path ends in deep sleep instead of a restart
FailRestart_Sleep ==
  /\ pc = "failAndRestart"
  /\ fail_ms >= FAIL_TOTAL_MS
  /\ pc' = "deep_sleep"
  /\ sleep_for' = cfg.sleep_s
  /\ calls' = {"delay", "esp_deep_sleep_start"}
  /\ UNCHANGED <<persistent, cfg, portal_saved, ntp_ok, acqvars, postvars, pubvars,
                 failvars>>
  /\ UNCHANGED unitvars
  /\ wait_ms' = 0

\* the loop is over: LED off, ESP.restart()
FailRestart ==
  /\ pc = "failAndRestart"
  /\ fail_ms >= FAIL_TOTAL_MS
  /\ pc' = "restarted"
  /\ calls' = {"delay", "ESP.restart"}
  /\ UNCHANGED <<persistent, cfg, portal_saved, ntp_ok, acqvars, postvars, pubvars,
                 failvars, sleep_for>>
  /\ UNCHANGED unitvars
  /\ wait_ms' = 0

\* reset vector after a restart, or timer wake from deep sleep
PowerOn ==
  /\ pc \in {"restarted", "deep_sleep"}
  /\ pc' = "mountFS"
  /\ cfg' = DefaultCfg
  /\ portal_saved' = FALSE
  /\ ntp_ok' = FALSE
  /\ N' = 0 /\ i' = 0 /\ mono' = 0 /\ t0_rel_us' = 0 /\ last_t_us' = 0 /\ period_us' = 0
  /\ dt_sum_us' = 0 /\ epoch_us0' = <<>>
  /\ env' = NoScenario
  /\ dt_us_buf' = <<>> /\ ax_mg_buf' = <<>> /\ ay_mg_buf' = <<>> /\ az_mg_buf' = <<>>
  /\ t0_s' = 0 /\ iso_us' = "" /\ epoch_us_end_now' = <<>> /\ mag_rms' = 0
  /\ id_msg' = "" /\ dt_bytes' = <<>> /\ x_bytes' = <<>> /\ y_bytes' = <<>> /\ z_bytes' = <<>>
  /\ sent' = <<>> /\ pub_log' = <<>>
  /\ red_blinks' = 0 /\ fail_at' = "none" /\ fail_ms' = 0
  /\ sleep_for' = 0
  /\ acq_starts' = 0
  /\ calls' = {}
  /\ UNCHANGED persistent
  /\ UNCHANGED unitvars
  /\ wait_ms' = 0

\* goToSleep(seconds)
goToSleep(seconds) ==
  /\ pc' = "deep_sleep"
  /\ sleep_for' = seconds

SleepCalls == {"mqtt.disconnect", "WiFi.disconnect", "delay", "esp_deep_sleep_start"}

\* ------------------------------------------------------------------------
\* setup(): mount, configuration, portal
\* ------------------------------------------------------------------------
MountFS ==
  /\ pc = "mountFS"
  /\ \E mounted \in BOOLEAN :
       /\ IF mounted THEN pc' = "loadConfigFirst" /\ UNCHANGED failvars
          ELSE Fail("mountFS")
  /\ calls' = {"LittleFS.begin"}
  /\ UNCHANGED <<persistent, cfg, portal_saved, ntp_ok, acqvars, postvars, pubvars, sleep_for>>
  /\ UNCHANGED unitvars
  /\ wait_ms' = 0

\* line 1096: loadConfig() with the result ignored
LoadConfigFirst ==
  /\ pc = "loadConfigFirst"
  /\ \E mounted \in BOOLEAN : cfg' = loadConfig(cfg, mounted, fs_config)[2]
  /\ pc' = "bootHeld"
  /\ calls' = {"LittleFS.begin", "LittleFS.open"}
  /\ UNCHANGED <<persistent, portal_saved, ntp_ok, acqvars, postvars, pubvars, failvars,
                 sleep_for>>
  /\ UNCHANGED unitvars
  /\ wait_ms' = 0

\* bootHeldForMs(3000); when held, startConfigAPPortal begins
BootHeld ==
  /\ pc = "bootHeld"
  /\ \E held \in BOOLEAN :
       IF held
       THEN /\ pc' = "portal"
            /\ portal_saved' = FALSE
            /\ calls' = {"digitalRead", "pixelBlink", "WiFi.softAP", "dns.start", "web.begin"}
       ELSE /\ pc' = "loadConfig"
            /\ UNCHANGED portal_saved
            /\ calls' = {"digitalRead"}
  /\ UNCHANGED <<persistent, cfg, ntp_ok, acqvars, postvars, pubvars, failvars, sleep_for>>
  /\ UNCHANGED unitvars
  /\ wait_ms' = 0

\* POST /save while the portal loop runs
handleSave ==
  /\ pc = "portal"
  /\ ~portal_saved
  /\ \E form \in Forms, outcome \in SaveOutcomes :
       LET c == ApplyForm(cfg, form)
           w == saveConfigToFS(c, fs_config, outcome)
       IN  /\ cfg' = c
           /\ IF c.wifi_ssid = "" \/ c.mqtt_host = ""
              THEN UNCHANGED <<fs_config, portal_saved>>
              ELSE fs_config' = w[2] /\ portal_saved' = w[1]
  /\ calls' = {"web.arg", "LittleFS.open", "web.send"}
  /\ UNCHANGED <<fs_ca, pc, ntp_ok, acqvars, postvars, pubvars, failvars, sleep_for>>
  /\ UNCHANGED unitvars
  /\ UNCHANGED wait_ms

\* variant: a portal that was not saved falls through to the normal cycle
PortalExit_Fallthrough ==
  /\ pc = "portal"
  /\ pc' = IF portal_saved THEN "restarted" ELSE "loadConfig"
  /\ calls' = {"web.stop", "WiFi.softAPdisconnect"}
  /\ UNCHANGED <<persistent, cfg, portal_saved, ntp_ok, acqvars, postvars, pubvars, failvars,
                 sleep_for>>
  /\ UNCHANGED unitvars
  /\ wait_ms' = 0

\* the portal loop ends (saved, or timeout); lines 612-618 and 1103-1109
PortalExit ==
  /\ pc = "portal"
  /\ IF portal_saved
     THEN /\ pc' = "restarted"
          /\ calls' = {"web.stop", "WiFi.softAPdisconnect", "pixelBlink", "ESP.restart"}
          /\ UNCHANGED failvars
     ELSE /\ Fail("portal")
          /\ calls' = {"web.stop", "WiFi.softAPdisconnect"}
  /\ UNCHANGED <<persistent, cfg, portal_saved, ntp_ok, acqvars, postvars, pubvars, sleep_for>>
  /\ UNCHANGED unitvars
  /\ wait_ms' = 0

\* line 1113
LoadConfig ==
  /\ pc = "loadConfig"
  /\ \E mounted \in BOOLEAN :
       LET r == loadConfig(cfg, mounted, fs_config)
       IN  /\ cfg' = r[2]
           /\ IF r[1] THEN pc' = "loadCA" /\ UNCHANGED failvars
              ELSE Fail("loadConfig")
  /\ calls' = {"LittleFS.begin", "LittleFS.open"}
  /\ UNCHANGED <<persistent, portal_saved, ntp_ok, acqvars, postvars, pubvars, sleep_for>>
  /\ UNCHANGED unitvars
  /\ wait_ms' = 0

LoadCA ==
  /\ pc = "loadCA"
  /\ IF fs_ca THEN pc' = "connectWiFi" /\ UNCHANGED failvars
     ELSE Fail("loadCA")
  /\ calls' = {"LittleFS.open"}
  /\ UNCHANGED <<persistent, cfg, portal_saved, ntp_ok, acqvars, postvars, pubvars, sleep_for>>
  /\ UNCHANGED unitvars
  /\ wait_ms' = 0

\* ------------------------------------------------------------------------
\* setup(): network, time, sensor
\* ------------------------------------------------------------------------
ConnectWiFi ==
  /\ pc = "connectWiFi"
  /\ \E ok \in BOOLEAN :
       IF ok THEN pc' = "syncTimeNTP" /\ UNCHANGED failvars
       ELSE Fail("connectWiFi")
  /\ calls' = {"WiFi.begin", "WiFi.status", "delay"}
  /\ UNCHANGED <<persistent, cfg, portal_saved, ntp_ok, acqvars, postvars, pubvars, sleep_for>>
  /\ UNCHANGED unitvars
  /\ wait_ms' = 0

\* variant: a failed synchronisation is recorded and the cycle goes on
SyncTimeNTP_Continue ==
  /\ pc = "syncTimeNTP"
  /\ \E ok \in BOOLEAN : ntp_ok' = ok
  /\ pc' = "connectMQTT"
  /\ calls' = {"configTime", "time", "delay", "gettimeofday"}
  /\ UNCHANGED <<persistent, cfg, portal_saved, acqvars, postvars, pubvars, failvars,
                 sleep_for>>
  /\ UNCHANGED unitvars
  /\ wait_ms' = 0

\* lines 1119-1123
SyncTimeNTP ==
  /\ pc = "syncTimeNTP"
  /\ \E ok \in BOOLEAN :
       /\ ntp_ok' = ok
       /\ IF ok THEN pc' = "connectMQTT" /\ UNCHANGED failvars
          ELSE Fail("syncTimeNTP")
  /\ calls' = IF ntp_ok' THEN {"configTime", "time", "delay", "gettimeofday"}
               ELSE {"configTime", "time", "delay"}
  /\ UNCHANGED <<persistent, cfg, portal_saved, acqvars, postvars, pubvars, sleep_for>>
  /\ UNCHANGED unitvars
  /\ wait_ms' = 0

\* mqtt.connect succeeds or times out; the library and the broker decide,
\* whatever the length of client_id
ConnectMQTT ==
  /\ pc = "connectMQTT"
  /\ \E ok \in BOOLEAN :
       IF ok THEN pc' = "initLIS331" /\ UNCHANGED failvars
       ELSE Fail("connectMQTT")
  /\ calls' = {"mqtt.connect", "delay"}
  /\ UNCHANGED <<persistent, cfg, portal_saved, ntp_ok, acqvars, postvars, pubvars, sleep_for>>
  /\ UNCHANGED unitvars
  /\ wait_ms' = 0

InitLIS331 ==
  /\ pc = "initLIS331"
  /\ \E ok \in BOOLEAN :
       IF ok THEN pc' = "acquireN" /\ UNCHANGED failvars
       ELSE Fail("initLIS331")
  /\ calls' = {"Wire.begin", "lis.begin_I2C"}
  /\ UNCHANGED <<persistent, cfg, portal_saved, ntp_ok, acqvars, postvars, pubvars, sleep_for>>
  /\ UNCHANGED unitvars
  /\ wait_ms' = 0

\* ------------------------------------------------------------------------
\* acquireN
\* ------------------------------------------------------------------------
\* variant: every store lands one entry further on
WriteAt_Next(buf, idx, v) == ((idx + 1) :> v) @@ buf

\* buf[idx] = v
WriteAt(buf, idx, v) == (idx :> v) @@ buf

\* variant: a single sample is accepted
TooFew_One(n) == n < 1

\* line 981
TooFew(n) == n < 2

\* lines 1131-1150 and 981-991: N check, epoch_us0, monotonic reference
AcquireStart ==
  /\ pc = "acquireN"
  /\ N' = cfg.n_samples
  /\ IF TooFew(N')
     THEN /\ Fail("acquireN")
          /\ calls' = {}
          /\ UNCHANGED <<i, mono, t0_rel_us, last_t_us, period_us, dt_sum_us, epoch_us0,
                         env, acq_starts>>
     ELSE /\ \E sc \in Scenarios, t0 \in {7000000} :
               /\ epoch_us0' = sc.now
               /\ env' = sc
               /\ t0_rel_us' = t0
               /\ last_t_us' = t0
               /\ mono' = t0
          /\ period_us' = 1000000 \div cfg.fs_hz
          /\ dt_sum_us' = 0
          /\ i' = 0
          /\ acq_starts' = acq_starts + 1
          /\ pc' = "sampling"
          /\ calls' = {"gettimeofday", "esp_timer_get_time"}
          /\ UNCHANGED failvars
  /\ UNCHANGED <<persistent, cfg, portal_saved, ntp_ok, dt_us_buf, ax_mg_buf, ay_mg_buf,
                 az_mg_buf, postvars, pubvars, sleep_for>>
  /\ UNCHANGED unitvars
  /\ wait_ms' = 0

\* the clamped interval of lines 1005-1008 for two esp_timer_get_time()
\* readings (microseconds since boot, as limbs): d64 below 0 becomes 0, the
\* cast (uint32_t)d64 keeps the low 32 bits, then d above 65535 becomes 65535
ClampDt64(t_now, last) ==
  IF BigLess(t_now, last) THEN 0
  ELSE LET d == Low32Big(BigSub(t_now, last))
       IN  IF BigLess(BigOfNat(DT_SAT), d) THEN DT_SAT ELSE BigToNat(d)

\* the same for readings below 2^31
ClampDt(t_now_us, last_us) == ClampDt64(BigOfNat(t_now_us), BigOfNat(last_us))

\* variant: the target is one period after the previous sample
Target_Accum(t0, k, period) == last_t_us + period

\* the target of sample k (line 996)
Target(t0, k, period) == t0 + k * period

\* variant: the transport is pumped between samples
SampleCalls_Pump == {"esp_timer_get_time", "delayMicroseconds", "lis.getEvent", "mqtt.loop"}

\* external calls of one pass of the sampling loop
SampleCalls == {"esp_timer_get_time", "delayMicroseconds", "lis.getEvent"}

\* one pass of the for loop of acquireN, for index i; the last pass returns
AcquireSample ==
  /\ pc = "sampling"
  /\ i < N
  /\ LET target == Target(t0_rel_us, i, period_us)
         t_now  == IF i > 0 /\ mono < target THEN target + PollOvershoot(env.timing, i)
                   ELSE mono + 1
         ev     == SensorRead(env.signal, i)
     IN  /\ IF i > 0
            THEN /\ dt_us_buf' = WriteAt(dt_us_buf, i - 1, ClampDt(t_now, last_t_us))
                 /\ dt_sum_us' = dt_sum_us + ClampDt(t_now, last_t_us)
            ELSE UNCHANGED <<dt_us_buf, dt_sum_us>>
         /\ last_t_us' = t_now
         /\ ax_mg_buf' = WriteAt(ax_mg_buf, i, mps2_to_mg(ev[1]))
         /\ ay_mg_buf' = WriteAt(ay_mg_buf, i, mps2_to_mg(ev[2]))
         /\ az_mg_buf' = WriteAt(az_mg_buf, i, mps2_to_mg(ev[3]))
         /\ mono' = t_now + ReadDuration(env.timing, i)
  /\ i' = i + 1
  /\ pc' = IF i + 1 < N THEN "sampling" ELSE "validate"
  /\ calls' = SampleCalls
  /\ UNCHANGED <<persistent, cfg, portal_saved, ntp_ok, N, t0_rel_us, period_us, epoch_us0,
                 env, acq_starts, postvars, pubvars, failvars, sleep_for>>
  /\ UNCHANGED unitvars
  /\ wait_ms' = 0

\* variant: the meta timestamps are taken from the clock as read at the end
Validate_Reread ==
  /\ pc = "validate"
  /\ t0_s' = EpochSeconds(env.end_now)
  /\ iso_us' = formatISO8601UTC_us(env.end_now, 48)
  /\ epoch_us_end_now' = env.end_now
  /\ pc' = "gate"
  /\ calls' = {"gettimeofday"}
  /\ UNCHANGED <<persistent, cfg, portal_saved, ntp_ok, acqvars, mag_rms, pubvars, failvars,
                 sleep_for, unitvars>>
  /\ wait_ms' = 0

\* lines 1155-1196: meta timestamps from epoch_us0, dt statistics, end check
Validate ==
  /\ pc = "validate"
  /\ t0_s' = EpochSeconds(epoch_us0)
  /\ iso_us' = formatISO8601UTC_us(epoch_us0, 48)
  /\ epoch_us_end_now' = env.end_now
  /\ pc' = "gate"
  /\ calls' = {"gettimeofday"}
  /\ UNCHANGED <<persistent, cfg, portal_saved, ntp_ok, acqvars, mag_rms, pubvars, failvars,
                 sleep_for>>
  /\ UNCHANGED unitvars
  /\ wait_ms' = 0

\* ------------------------------------------------------------------------
\* RMS gate, lines 1201-1210
\* ------------------------------------------------------------------------
\* variant: a cycle exactly at the threshold is suppressed too
Suppress_Leq(rms, threshold) == rms <= threshold

\* the gate suppresses the cycle
Suppress(rms, threshold) == rms < threshold

\* variant: the sum of squares is kept between evaluations instead of
\* starting at 0.0
Gate_Carry ==
  /\ pc = "gate"
  /\ mag_rms' = mag_rms + computeMagRms_mps2(ax_mg_buf, ay_mg_buf, az_mg_buf, N)
  /\ IF Suppress(mag_rms', cfg.mag_rms_threshold)
     THEN /\ goToSleep(cfg.sleep_s)
          /\ calls' = {"pixelBlink"} \cup SleepCalls
     ELSE /\ pc' = "publishMeta"
          /\ calls' = {}
          /\ UNCHANGED sleep_for
  /\ UNCHANGED <<persistent, cfg, portal_saved, ntp_ok, acqvars, t0_s, iso_us,
                 epoch_us_end_now, pubvars, failvars>>
  /\ UNCHANGED unitvars
  /\ wait_ms' = 0

Gate ==
  /\ pc = "gate"
  /\ mag_rms' = computeMagRms_mps2(ax_mg_buf, ay_mg_buf, az_mg_buf, N)
  /\ IF Suppress(mag_rms', cfg.mag_rms_threshold)
     THEN /\ goToSleep(cfg.sleep_s)
          /\ calls' = {"pixelBlink"} \cup SleepCalls
     ELSE /\ pc' = "publishMeta"
          /\ calls' = {}
          /\ UNCHANGED sleep_for
  /\ UNCHANGED <<persistent, cfg, portal_saved, ntp_ok, acqvars, t0_s, iso_us,
                 epoch_us_end_now, pubvars, failvars>>
  /\ UNCHANGED unitvars
  /\ wait_ms' = 0

\* ------------------------------------------------------------------------
\* Publish sequence, lines 1214-1267
\* ------------------------------------------------------------------------
PublishCalls == {"cbor_encode", "mqtt.publish", "mqtt.loop", "delay"}

\* the map publishMetaCbor encodes
MetaMsg(id, ip) ==
  [type |-> "meta", id |-> id, dev |-> cfg.client_id, ip |-> ip,
   ntp |-> IF ntp_ok THEN 1 ELSE 0, epoch_s |-> t0_s, iso |-> iso_us,
   t0_us |-> epoch_us0, n |-> N, fs |-> cfg.fs_hz,
   dt_fmt |-> "u16le_us", a_fmt |-> "i16le_mg"]

\* the map publishBlobCbor encodes
BlobMsg(type, id, key, bytes, blob_len, idx, total_parts) ==
  [type |-> type, id |-> id, idx |-> idx, parts |-> total_parts, key |-> key,
   payload |-> BlobBytes(bytes, blob_len)]

\* variant: a map that does not fit is cut to the buffer and handed over
PublishCbor_Truncate(msg, encodes, delivered) ==
  /\ sent' = IF encodes \/ "payload" \notin DOMAIN msg THEN Append(sent, msg)
             ELSE Append(sent, [msg EXCEPT !.payload = SubSeq(@, 1, Min2(Len(@), 1000))])
  /\ pub_log' = Append(pub_log, [type |-> msg.type, encoded |-> encodes, ok |-> delivered])

\* variant: a message the transport refused is handed over a second time
PublishCbor_Retry(msg, encodes, delivered) ==
  IF encodes
  THEN /\ sent' = IF delivered THEN Append(sent, msg) ELSE Append(Append(sent, msg), msg)
       /\ pub_log' =
            IF delivered
            THEN Append(pub_log, [type |-> msg.type, encoded |-> TRUE, ok |-> TRUE])
            ELSE Append(Append(pub_log, [type |-> msg.type, encoded |-> TRUE, ok |-> FALSE]),
                        [type |-> msg.type, encoded |-> TRUE, ok |-> FALSE])
  ELSE /\ sent' = sent
       /\ pub_log' = Append(pub_log, [type |-> msg.type, encoded |-> FALSE, ok |-> FALSE])

\* publish*Cbor: encode msg into buf; when it fits, mqttPublishCbor hands it to
\* mqtt.publish (which returns delivered) and pumps mqtt.loop for 200 ms
PublishCbor(msg, encodes, delivered) ==
  IF encodes
  THEN /\ sent' = Append(sent, msg)
       /\ pub_log' = Append(pub_log, [type |-> msg.type, encoded |-> TRUE, ok |-> delivered])
  ELSE /\ sent' = sent
       /\ pub_log' = Append(pub_log, [type |-> msg.type, encoded |-> FALSE, ok |-> FALSE])

CallsOf(encodes) == IF encodes THEN PublishCalls ELSE {"cbor_encode"}

\* lines 1214-1220
PublishMeta ==
  /\ pc = "publishMeta"
  /\ id_msg' = makeIdMsg(cfg.client_id, ID_MSG_LEN, epoch_us0)
  /\ \E ip \in LocalIPs, delivered \in BOOLEAN :
       LET m == MetaMsg(id_msg', ip)
       IN  /\ (~MetaEncodes(m) => ~delivered)
           /\ PublishCbor(m, MetaEncodes(m), delivered)
           /\ calls' = {"pixelBlink"} \cup CallsOf(MetaEncodes(m))
  /\ pc' = "publishDt"
  /\ UNCHANGED <<persistent, cfg, portal_saved, ntp_ok, acqvars, postvars, dt_bytes, x_bytes,
                 y_bytes, z_bytes, failvars, sleep_for>>
  /\ UNCHANGED unitvars
  /\ wait_ms' = 0

\* lines 1222-1244: pack the four buffers, publish the dt blob
PublishDt ==
  /\ pc = "publishDt"
  /\ LET dt_count == IF N > 0 THEN N - 1 ELSE 0
     IN  /\ dt_bytes' = PackU16(dt_us_buf, dt_count)
         /\ x_bytes' = PackI16(ax_mg_buf, N)
         /\ y_bytes' = PackI16(ay_mg_buf, N)
         /\ z_bytes' = PackI16(az_mg_buf, N)
         /\ \E delivered \in BOOLEAN :
              LET b == BlobMsg("dt", id_msg, "dt", dt_bytes', dt_count * 2, 0, 1)
              IN  /\ (~BlobEncodes(b) => ~delivered)
                  /\ PublishCbor(b, BlobEncodes(b), delivered)
                  /\ calls' = CallsOf(BlobEncodes(b))
  /\ pc' = "publishX"
  /\ UNCHANGED <<persistent, cfg, portal_saved, ntp_ok, acqvars, postvars, id_msg, failvars,
                 sleep_for>>
  /\ UNCHANGED unitvars
  /\ wait_ms' = 0

\* delay(3000), then one axis blob
PublishAxis(at, type, bytes, next) ==
  /\ pc = at
  /\ \E delivered \in BOOLEAN :
       LET b == BlobMsg(type, id_msg, "a", bytes, N * 2, 0, 1)
       IN  /\ (~BlobEncodes(b) => ~delivered)
           /\ PublishCbor(b, BlobEncodes(b), delivered)
           /\ calls' = {"delay"} \cup CallsOf(BlobEncodes(b))
  /\ pc' = next
  /\ UNCHANGED <<persistent, cfg, portal_saved, ntp_ok, acqvars, postvars, id_msg, dt_bytes,
                 x_bytes, y_bytes, z_bytes, failvars, sleep_for>>
  /\ UNCHANGED unitvars
  /\ wait_ms' = 0

\* variant: the y buffer goes out at the x step as well
PublishX_AsY == PublishAxis("publishX", "y", y_bytes, "publishY")

PublishX == PublishAxis("publishX", "x", x_bytes, "publishY")

PublishY == PublishAxis("publishY", "y", y_bytes, "publishZ")

PublishZ == PublishAxis("publishZ", "z", z_bytes, "finalFlush")

\* variant: the cycle loops back to the sampler instead of sleeping
FinalFlush_Reacquire ==
  /\ pc = "finalFlush"
  /\ pc' = "acquireN"
  /\ calls' = {"mqtt.loop"}
  /\ UNCHANGED <<persistent, cfg, portal_saved, ntp_ok, acqvars, postvars, pubvars, failvars,
                 sleep_for>>
  /\ UNCHANGED unitvars
  /\ wait_ms' = 0

\* lines 1258-1267: 3 s of mqtt.loop, LED off, goToSleep
FinalFlush ==
  /\ pc = "finalFlush"
  /\ goToSleep(cfg.sleep_s)
  /\ calls' = {"mqtt.loop"} \cup SleepCalls
  /\ UNCHANGED <<persistent, cfg, portal_saved, ntp_ok, acqvars, postvars, pubvars, failvars>>
  /\ UNCHANGED unitvars
  /\ wait_ms' = 0

Next ==
  \/ MountFS
  \/ LoadConfigFirst
  \/ BootHeld
  \/ handleSave
  \/ PortalExit
  \/ LoadConfig
  \/ LoadCA
  \/ ConnectWiFi
  \/ SyncTimeNTP
  \/ ConnectMQTT
  \/ InitLIS331
  \/ AcquireStart
  \/ AcquireSample
  \/ Validate
  \/ Gate
  \/ PublishMeta
  \/ PublishDt
  \/ PublishX
  \/ PublishY
  \/ PublishZ
  \/ FinalFlush
  \/ FailSignal
  \/ FailRestart
  \/ PowerOn

Spec == Init /\ [][Next]_vars

\* ------------------------------------------------------------------------
\* Functions applied on their own: one call, arguments drawn from sets that
\* hold the boundary values of the argument types
\* ------------------------------------------------------------------------
\* RAM outside pc, cfg, arg and ret before the call
UnitRam ==
  /\ portal_saved = FALSE
  /\ ntp_ok = TRUE
  /\ N = 0 /\ i = 0 /\ mono = 0 /\ t0_rel_us = 0 /\ last_t_us = 0 /\ period_us = 0
  /\ dt_sum_us = 0 /\ epoch_us0 = <<>>
  /\ env = NoScenario
  /\ dt_us_buf = <<>> /\ ax_mg_buf = <<>> /\ ay_mg_buf = <<>> /\ az_mg_buf = <<>>
  /\ t0_s = 0 /\ iso_us = "" /\ epoch_us_end_now = <<>> /\ mag_rms = 0
  /\ id_msg = "" /\ dt_bytes = <<>> /\ x_bytes = <<>> /\ y_bytes = <<>> /\ z_bytes = <<>>
  /\ sent = <<>> /\ pub_log = <<>>
  /\ red_blinks = 0 /\ fail_at = "none" /\ fail_ms = 0
  /\ sleep_for = 0
  /\ acq_starts = 0
  /\ calls = {}

\* esp_timer_get_time() readings around the 16-bit and 32-bit boundaries
MonoTimes ==
  { BigOfNat(0), BigOfNat(1), BigOfNat(299), BigOfNat(65534), BigOfNat(65535),
    BigOfNat(65536), BigOfNat(70000), BigOfNat(2147483647),
    BigSub(Two32, BigOfNat(1)), Two32, BigAdd(Two32, BigOfNat(5)),
    BigAdd(Two32, BigOfNat(65535)), BigAdd(BigMulSmall(Two32, 2), BigOfNat(70000)) }

ClampArgs == { [fn |-> "ClampDt", last |-> a, now |-> b] : a \in MonoTimes, b \in MonoTimes }

\* buffers of 256 consecutive values base .. base + 255 for the packing loops
\* of lines 1225-1238: together every uint16_t and every int16_t
PackArgs ==
  { [fn |-> "PackU16", base |-> 256 * h] : h \in 0..255 }
  \cup { [fn |-> "PackI16", base |-> 256 * h] : h \in -128..127 }

\* gettimeofday() readings, some of them 2^32 or 2^33 us apart
IdEpochs ==
  { BigOfNat(0), BigOfNat(1), BigSub(Two32, BigOfNat(1)), Two32,
    EpochUs(1790000000, 123), EpochUs(1790004294, 967419), EpochUs(1790008589, 934715),
    EpochUs(1790000000, 124), EpochUs(1790000300, 500000) }

\* two sessions of one device: cfg.client_id and the epoch_us0 of each
IdArgs ==
  { [fn |-> "makeIdMsg", dev |-> d, a |-> e1, b |-> e2] :
      d \in {"", "node7", "esp32s3-lis331-01", Rep("n", LongIdLen)},
      e1 \in IdEpochs, e2 \in IdEpochs }

\* constant waveforms (0, 0, az) of n samples for computeMagRms_mps2: az of
\* 1 g, and 9800.665 mg as an int16_t, rounded or cut
RmsArgs ==
  { [fn |-> "computeMagRms", n |-> n, az |-> z] :
      n \in (1..12) \cup {499, 500, 1999, SAMPLE_BUF_LEN}, z \in {1000, 9800, 9801} }

UnitArgs == ClampArgs \cup PackArgs \cup IdArgs \cup RmsArgs

\* cfg at the call of acquireN(N, cfg.fs_hz, ...) when the values are not
\* those loadConfig leaves: N from 0 up to the length of the sample buffers
UnitCfgs ==
  { [DefaultCfg EXCEPT !.client_id = "node7", !.wifi_ssid = "lab", !.mqtt_host = "broker",
                       !.n_samples = nf[1], !.fs_hz = nf[2]] :
      nf \in { <<0, 100>>, <<1, 100>>, <<2, 100>>, <<4, 100>>, <<SAMPLE_BUF_LEN, 2000>> } }

UnitInit ==
  /\ fs_config = [kind |-> "missing", doc |-> NoDoc]
  /\ fs_ca = TRUE
  /\ UnitRam
  /\ ret = <<>>
  /\ wait_ms = 0
  /\ \/ pc = "call" /\ cfg = DefaultCfg /\ arg \in UnitArgs
     \/ pc = "acquireN" /\ cfg \in UnitCfgs /\ arg = [fn |-> "acquireN"]

\* what is left alone by a function that only computes a value
UnitFrame ==
  UNCHANGED <<persistent, cfg, portal_saved, ntp_ok, acqvars, postvars, pubvars, failvars,
              sleep_for, calls, arg, wait_ms>>

\* lines 1005-1009 for one pair of readings
ApplyClampDt ==
  /\ pc = "call" /\ arg.fn = "ClampDt"
  /\ ret' = ClampDt64(arg.now, arg.last)
  /\ pc' = "returned"
  /\ UnitFrame

\* lines 1225-1238 and 853-859: put_u16_le / put_i16_le on every entry of a buffer
ApplyPack ==
  /\ pc = "call" /\ arg.fn \in {"PackU16", "PackI16"}
  /\ LET buf == [k \in 0..255 |-> arg.base + k]
     IN  ret' = IF arg.fn = "PackU16" THEN PackU16(buf, 256) ELSE PackI16(buf, 256)
  /\ pc' = "returned"
  /\ UnitFrame

\* lines 1215-1216 in each of the two sessions
ApplyMakeIdMsg ==
  /\ pc = "call" /\ arg.fn = "makeIdMsg"
  /\ ret' = <<makeIdMsg(arg.dev, ID_MSG_LEN, arg.a), makeIdMsg(arg.dev, ID_MSG_LEN, arg.b)>>
  /\ pc' = "returned"
  /\ UnitFrame

\* lines 1052-1070 on a constant waveform
ApplyMagRms ==
  /\ pc = "call" /\ arg.fn = "computeMagRms"
  /\ LET zero == [k \in 0..(arg.n - 1) |-> 0]
         az == [k \in 0..(arg.n - 1) |-> arg.az]
     IN  ret' = computeMagRms_mps2(zero, zero, az, arg.n)
  /\ pc' = "returned"
  /\ UnitFrame

\* lines 1201-1204 evaluated once more ahead of the gate of setup(): the rms
\* and the decision (TRUE: suppress) go to ret
EvaluateGate ==
  /\ pc = "gate" /\ ret = <<>>
  /\ mag_rms' = computeMagRms_mps2(ax_mg_buf, ay_mg_buf, az_mg_buf, N)
  /\ ret' = <<mag_rms', Suppress(mag_rms', cfg.mag_rms_threshold)>>
  /\ UNCHANGED <<persistent, pc, cfg, portal_saved, ntp_ok, acqvars, t0_s, iso_us,
                 epoch_us_end_now, pubvars, failvars, sleep_for, calls, arg, wait_ms>>

\* the single calls, and setup() from its call of acquireN to the sleep or
\* the restart
UnitNext ==
  \/ ApplyClampDt
  \/ ApplyPack
  \/ ApplyMakeIdMsg
  \/ ApplyMagRms
  \/ EvaluateGate
  \/ AcquireStart
  \/ AcquireSample
  \/ Validate
  \/ Gate
  \/ PublishMeta
  \/ PublishDt
  \/ PublishX
  \/ PublishY
  \/ PublishZ
  \/ FinalFlush
  \/ FailSignal
  \/ FailRestart

UnitSpec == UnitInit /\ [][UnitNext]_vars

\* ------------------------------------------------------------------------
\* The wait loops pass by pass: wait_ms is millis() - t0 of the loop in
\* progress, and a pass lasts as long as its delay() call
\* ------------------------------------------------------------------------
WIFI_TIMEOUT_MS == 20000

MQTT_TIMEOUT_MS == 20000

PORTAL_TIMEOUT_MS == 300000

FLUSH_MS == 200

FINAL_FLUSH_MS == 3000

\* the portal loop is followed in stretches of this many ms (passes of 5 ms)
PortalTickMs == 60000

\* the flush loops are followed in stretches of this many ms (passes of 5 or
\* 10 ms)
FlushTickMs == 100

\* what a pass of a wait loop leaves alone
WaitFrame ==
  UNCHANGED <<persistent, cfg, portal_saved, acqvars, postvars, pubvars, sleep_for, unitvars>>

\* variant: t0 is read again in every pass, so the timeout never expires
WaitWiFi_Rearm ==
  /\ pc = "connectWiFi"
  /\ \E connected \in BOOLEAN :
       IF connected
       THEN pc' = "syncTimeNTP" /\ wait_ms' = 0
       ELSE pc' = pc /\ wait_ms' = IF wait_ms = 0 THEN 250 ELSE 0
  /\ calls' = {"WiFi.begin", "WiFi.status", "delay"}
  /\ UNCHANGED <<ntp_ok, failvars>>
  /\ WaitFrame

\* connectWiFi, lines 723-733: one pass of the loop, entered with
\* millis() - t0 = wait_ms
WaitWiFi ==
  /\ pc = "connectWiFi"
  /\ \E connected \in BOOLEAN :
       IF connected
       THEN pc' = "syncTimeNTP" /\ wait_ms' = 0 /\ UNCHANGED failvars
       ELSE /\ wait_ms' = wait_ms + 250
            /\ IF wait_ms' > WIFI_TIMEOUT_MS THEN Fail("connectWiFi")
               ELSE UNCHANGED <<pc, failvars>>
  /\ calls' = {"WiFi.begin", "WiFi.status", "delay"}
  /\ UNCHANGED ntp_ok
  /\ WaitFrame

\* syncTimeNTP, lines 767-781, and lines 1119-1120: one pass of the loop
WaitNTP ==
  /\ pc = "syncTimeNTP"
  /\ IF wait_ms >= cfg.ntp_timeout_s * 1000
     THEN ntp_ok' = FALSE /\ Fail("syncTimeNTP") /\ UNCHANGED wait_ms
     ELSE \E synced \in BOOLEAN :
            IF synced
            THEN ntp_ok' = TRUE /\ pc' = "connectMQTT" /\ wait_ms' = 0 /\ UNCHANGED failvars
            ELSE wait_ms' = wait_ms + 250 /\ UNCHANGED <<pc, ntp_ok, failvars>>
  /\ calls' = {"configTime", "time", "delay"}
  /\ WaitFrame

\* connectMQTT, lines 740-754, and line 1126: one pass of the loop
WaitMQTT ==
  /\ pc = "connectMQTT"
  /\ \E ok \in BOOLEAN :
       IF ok
       THEN pc' = "initLIS331" /\ wait_ms' = 0 /\ UNCHANGED failvars
       ELSE /\ wait_ms' = wait_ms + 1000
            /\ IF wait_ms' > MQTT_TIMEOUT_MS THEN Fail("connectMQTT")
               ELSE UNCHANGED <<pc, failvars>>
  /\ calls' = {"mqtt.connect", "delay"}
  /\ UNCHANGED ntp_ok
  /\ WaitFrame

\* startConfigAPPortal, lines 603-610: a stretch of passes in which no save
\* request is served
PortalPass ==
  /\ pc = "portal" /\ ~portal_saved
  /\ wait_ms < PORTAL_TIMEOUT_MS
  /\ wait_ms' = Min2(wait_ms + PortalTickMs, PORTAL_TIMEOUT_MS)
  /\ calls' = {"dns.processNextRequest", "web.handleClient", "delay"}
  /\ UNCHANGED <<pc, ntp_ok, failvars>>
  /\ WaitFrame

\* ms of mqtt.loop pumping due after the last publish call: the 200 ms of
\* mqttPublishCbor when the message was handed over, and before the sleep
\* the 3 s of lines 1259-1263
FlushWindow ==
  (IF pub_log # <<>> /\ pub_log[Len(pub_log)].encoded THEN FLUSH_MS ELSE 0)
  + (IF pc = "finalFlush" THEN FINAL_FLUSH_MS ELSE 0)

FlushLeft ==
  /\ pc \in {"publishDt", "publishX", "publishY", "publishZ", "finalFlush"}
  /\ wait_ms < FlushWindow

\* a stretch of passes of a flush loop: mqtt.loop and delay(5) in
\* mqttPublishCbor (lines 867-870), delay(10) in the final window (lines
\* 1260-1263)
FlushPass ==
  /\ FlushLeft
  /\ wait_ms' = Min2(wait_ms + FlushTickMs, FlushWindow)
  /\ calls' = {"mqtt.loop", "delay"}
  /\ UNCHANGED <<pc, ntp_ok, failvars>>
  /\ WaitFrame

\* stored files with short acquisitions
LiveFiles == { f \in StoredFiles : f.doc.n_samples \in {<<>>, <<3>>, <<12>>} }

LiveInit ==
  /\ fs_config \in LiveFiles
  /\ fs_ca \in BOOLEAN
  /\ PowerOnState
  /\ arg = <<>> /\ ret = <<>>
  /\ wait_ms = 0

\* the steps of the firmware whose guards and effects are on the control
\* state: the wait loops, the file and portal steps, the blob publishes
ControlSteps ==
  \/ MountFS
  \/ LoadConfigFirst
  \/ BootHeld
  \/ PortalPass
  \/ (portal_saved \/ wait_ms >= PORTAL_TIMEOUT_MS) /\ PortalExit
  \/ LoadConfig
  \/ LoadCA
  \/ WaitWiFi
  \/ WaitNTP
  \/ WaitMQTT
  \/ InitLIS331
  \/ AcquireStart
  \/ FlushPass
  \/ ~FlushLeft /\ PublishDt
  \/ ~FlushLeft /\ PublishX
  \/ ~FlushLeft /\ PublishY
  \/ ~FlushLeft /\ PublishZ
  \/ ~FlushLeft /\ FinalFlush
  \/ FailSignal
  \/ FailRestart
  \/ PowerOn

\* the steps of the firmware itself: the control steps and the four steps
\* that compute over the sample buffers
LiveSteps ==
  \/ ControlSteps
  \/ AcquireSample
  \/ Validate
  \/ Gate
  \/ PublishMeta

\* and the save requests a client sends while the portal loop runs
LiveNext ==
  \/ LiveSteps
  \/ wait_ms < PORTAL_TIMEOUT_MS /\ handleSave

\* the program is single-threaded and every call returns: whenever the
\* firmware has a step to take, it takes one; clients need not send requests.
\* Each of the four computing steps is enabled exactly when control is at its
\* label (the sampling pass while i < N), so its weak fairness is written
\* with that enabling condition in place of ENABLED.
LiveSpec ==
  /\ LiveInit
  /\ [][LiveNext]_vars
  /\ WF_vars(ControlSteps)
  /\ ([]<>(~(pc = "sampling" /\ i < N)) \/ []<><<AcquireSample>>_vars)
  /\ ([]<>(pc # "validate") \/ []<><<Validate>>_vars)
  /\ ([]<>(pc # "gate") \/ []<><<Gate>>_vars)
  /\ ([]<>(pc # "publishMeta") \/ []<><<PublishMeta>>_vars)

\* ------------------------------------------------------------------------
\* Properties
\* ------------------------------------------------------------------------
MsgOrder == <<"meta", "dt", "x", "y", "z">>

BlobTypes == {"dt", "x", "y", "z"}

Rank(type) == CHOOSE r \in 1..5 : MsgOrder[r] = type

PublishPcs == {"publishMeta", "publishDt", "publishX", "publishY", "publishZ", "finalFlush"}

\* the gate decided publish in the cycle this state belongs to
GatePassed ==
  \/ pc \in PublishPcs
  \/ pc = "deep_sleep" /\ ~(mag_rms < cfg.mag_rms_threshold)

\* publish*Cbor calls made when the cycle stands at each position
CallsDoneAt(p) ==
  CASE p = "publishMeta" -> 0
    [] p = "publishDt" -> 1
    [] p = "publishX" -> 2
    [] p = "publishY" -> 3
    [] p = "publishZ" -> 4
    [] OTHER -> 5

EncodingErrorOccurred == \E k \in 1..Len(pub_log) : ~pub_log[k].encoded

\* the error class of the taxonomy each failAndRestart call site stands for
ErrorClass(site) ==
  CASE site \in {"mountFS", "portal", "loadConfig", "loadCA"} -> "ConfigurationError"
    [] site \in {"connectWiFi", "syncTimeNTP", "connectMQTT"} -> "TransportError"
    [] site = "initLIS331" -> "SensorError"
    [] OTHER -> "AcquisitionError"

TransportOrEncodingCalls ==
  {"WiFi.begin", "WiFi.status", "WiFi.disconnect", "WiFi.softAP", "configTime",
   "mqtt.connect", "mqtt.publish", "mqtt.loop", "mqtt.disconnect", "cbor_encode",
   "web.begin", "web.send", "dns.start"}

\* C1: the messages handed to the transport in a cycle follow the order meta,
\* dt, x, y, z with no kind sent twice, all carry the cycle's session id, and
\* every blob has idx = 0 and parts = 1.
C1_FixedOrder ==
  /\ \A j, k \in 1..Len(sent) : j < k => Rank(sent[j].type) < Rank(sent[k].type)
  /\ \A j \in 1..Len(sent) :
       /\ sent[j].id = id_msg
       /\ sent[j].type \in BlobTypes => sent[j].idx = 0 /\ sent[j].parts = 1

C1_Witness ==
  /\ pc = "deep_sleep"
  /\ Len(sent) = 5
  /\ [k \in 1..5 |-> sent[k].type] = MsgOrder

\* C2: the gate step suppresses exactly when rms < threshold: then nothing is
\* encoded or handed to the transport and the cycle is in deep sleep; when
\* rms >= threshold the cycle stands at the first publish step.
C2_GateRule ==
  [][pc = "gate" =>
       /\ (mag_rms' < cfg.mag_rms_threshold =>
             /\ pc' = "deep_sleep"
             /\ sent' = <<>> /\ pub_log' = <<>>
             /\ calls' \cap {"cbor_encode", "mqtt.publish"} = {})
       /\ (mag_rms' >= cfg.mag_rms_threshold => pc' = "publishMeta")
       /\ pc' \in {"deep_sleep", "publishMeta"}
       /\ mag_rms' = computeMagRms_mps2(ax_mg_buf, ay_mg_buf, az_mg_buf, N)]_vars

C2_Witness ==
  /\ pc = "publishMeta"
  /\ mag_rms = cfg.mag_rms_threshold

\* C3: when the gate decided publish and the cycle has reached deep sleep, each
\* of the four blobs (dt, x, y, z) was encoded and handed to the transport.
C3_AllBlobsSent ==
  (pc = "deep_sleep" /\ GatePassed) =>
     \A t \in BlobTypes : \E j \in 1..Len(sent) : sent[j].type = t

\* C4: the sampler starts at most once between power-on and the next sleep or
\* restart, and no step leads from the gate or the publish sequence back to it.
C4_OneAcquisition ==
  [][/\ acq_starts' <= 1
     /\ (pc \in PublishPcs \cup {"validate", "gate"}) => pc' \notin {"acquireN", "sampling"}]_vars

C4_Witness ==
  /\ pc = "finalFlush"
  /\ acq_starts = 1

\* C5: once a setup step has called failAndRestart, the cycle has acquired no
\* sample, encoded or published no message and not entered deep sleep, and
\* its only way on is the restart.
C5_FailedTerminal ==
  [][pc = "failAndRestart" =>
       /\ acq_starts = 0
       /\ ax_mg_buf = <<>> /\ dt_us_buf = <<>>
       /\ sent = <<>> /\ pub_log = <<>>
       /\ sleep_for = 0
       /\ pc' \in {"failAndRestart", "restarted"}
       /\ (pc' = "restarted" => fail_ms >= FAIL_TOTAL_MS)
       /\ sent' = <<>> /\ pub_log' = <<>> /\ acq_starts' = 0]_vars

C5_Witness ==
  /\ pc = "restarted"
  /\ fail_at = "connectMQTT"
  /\ fail_ms >= FAIL_TOTAL_MS

\* C6: a failure signal identifies its error class (no call site of another
\* class uses the same blink count), and a cycle in which an encoder ran out
\* of buffer does not end in deep sleep without a failure signal.
C6_DistinctSignals ==
  /\ pc = "failAndRestart" =>
       \A site \in FailSites :
          ErrorClass(site) # ErrorClass(fail_at) => RedBlinks(site) # red_blinks
  /\ pc = "deep_sleep" /\ EncodingErrorOccurred => red_blinks # 0

\* C7: a cycle in which an encoder ran out of buffer does not reach deep sleep.
C7_EncodingErrorFatal == EncodingErrorOccurred => pc # "deep_sleep"

\* C8: in a publishing cycle each of the five messages is attempted exactly
\* once, in order, whatever the earlier outcomes were, the cycle never goes
\* to failAndRestart, and it ends in deep sleep with five attempts.
C8_FireAndForget ==
  /\ [](GatePassed =>
          /\ Len(pub_log) = CallsDoneAt(pc)
          /\ [k \in 1..Len(pub_log) |-> pub_log[k].type] = SubSeq(MsgOrder, 1, Len(pub_log))
          /\ fail_at = "none")
  /\ [][(pc \in PublishPcs) =>
          /\ pc' \in PublishPcs \cup {"deep_sleep"}
          /\ (pc # "finalFlush" => Len(pub_log') = Len(pub_log) + 1)
          /\ (pc = "finalFlush" => pc' = "deep_sleep" /\ pub_log' = pub_log)]_vars

C8_Witness ==
  /\ pc = "deep_sleep"
  /\ Len(pub_log) = 5
  /\ pub_log[1].encoded /\ ~pub_log[1].ok
  /\ pub_log[3].encoded /\ ~pub_log[3].ok
  /\ pub_log[4].ok
  /\ pub_log[5].ok

\* C9: every blob handed to the transport is preceded by exactly one meta
\* message with the same session id.
C9_MetaBeforeBlob ==
  \A j \in 1..Len(sent) :
     sent[j].type \in BlobTypes =>
        Cardinality({k \in 1..(j - 1) : sent[k].type = "meta" /\ sent[k].id = sent[j].id}) = 1

\* C10: from the capture of epoch_us0 to the storing of the last sample no
\* step makes a transport call or encodes a message.
C10_QuietSampling ==
  [][(pc \in {"acquireN", "sampling"}) => (calls' \cap TransportOrEncodingCalls = {})]_vars

C10_Witness ==
  /\ pc = "validate"
  /\ i = N
  /\ N >= 10
  /\ calls = SampleCalls

\* C11: the stored interval of two consecutive readings t_prev, t_now is
\* min(max(t_now - t_prev, 0), 65535): 0 for a negative delta, 65535 for
\* every delta of 65535 or more.
C11_IntervalClamp ==
  (pc = "returned" /\ arg.fn = "ClampDt") =>
     ret = IF BigLess(arg.now, arg.last) THEN 0
           ELSE IF BigLess(BigOfNat(DT_SAT), BigSub(arg.now, arg.last)) THEN DT_SAT
           ELSE BigToNat(BigSub(arg.now, arg.last))

\* C12: once acquireN has returned true, the three axis buffers hold entries
\* 0..N-1 and the interval buffer entries 0..N-2, nothing else, and N is
\* within the buffers; while it runs, pass i has stored exactly the entries
\* below i (below i-1 for the intervals).
C12_BufferLengths ==
  /\ (pc \in PublishPcs \cup {"validate", "gate"}) =>
        /\ N \in 2..SAMPLE_BUF_LEN
        /\ DOMAIN ax_mg_buf = 0..(N - 1)
        /\ DOMAIN ay_mg_buf = 0..(N - 1)
        /\ DOMAIN az_mg_buf = 0..(N - 1)
        /\ DOMAIN dt_us_buf = 0..(N - 2)
  /\ pc = "sampling" =>
        /\ DOMAIN ax_mg_buf = 0..(i - 1)
        /\ DOMAIN ay_mg_buf = 0..(i - 1)
        /\ DOMAIN az_mg_buf = 0..(i - 1)
        /\ DOMAIN dt_us_buf = 0..(i - 2)

\* the smallest accepted N: two samples, one interval
C12_Witness ==
  /\ pc = "validate"
  /\ N = 2
  /\ DOMAIN az_mg_buf = {0, 1}
  /\ DOMAIN dt_us_buf = {0}

\* C13: acquireN called with N < 2 returns false at once: no clock or sensor
\* call, epoch_us0, the interval sum and the four buffers as they were, and
\* setup() goes to failAndRestart.
C13_TooFewRejected ==
  [][(pc = "acquireN" /\ cfg.n_samples < 2) =>
       /\ pc' = "failAndRestart" /\ fail_at' = "acquireN"
       /\ calls' \cap {"gettimeofday", "esp_timer_get_time", "lis.getEvent"} = {}
       /\ UNCHANGED <<epoch_us0, dt_sum_us, dt_us_buf, ax_mg_buf, ay_mg_buf, az_mg_buf,
                      acq_starts, sent, pub_log>>]_vars

C13_Witness ==
  /\ pc = "restarted"
  /\ fail_at = "acquireN"
  /\ N = 1
  /\ epoch_us0 = <<>> /\ ax_mg_buf = <<>> /\ dt_us_buf = <<>>

\* C14: with period = 1000000 \div fs_hz, sample i >= 1 is timestamped (and
\* then read) at or after t0 + i * period; when the clock has not reached
\* that target as the pass begins, the sample is taken within one polling
\* step (50 us) of it, however late the earlier samples were.
C14_TargetFromT0 ==
  [][(pc = "sampling" /\ i >= 1) =>
       LET target == t0_rel_us + i * (1000000 \div cfg.fs_hz)
       IN  /\ last_t_us' >= target
           /\ mono' >= last_t_us'
           /\ (mono < target => last_t_us' <= target + 50)
           /\ UNCHANGED <<t0_rel_us, period_us>>]_vars

\* sample 3 stalled for 70 ms at 100 Hz, samples 4..10 were late, sample 11
\* is back on its target
C14_Witness ==
  /\ pc = "sampling"
  /\ i = 12
  /\ period_us = 10000
  /\ dt_us_buf[3] = DT_SAT
  /\ dt_us_buf[5] < period_us
  /\ last_t_us >= t0_rel_us + 11 * period_us
  /\ last_t_us <= t0_rel_us + 11 * period_us + 50

\* C15: epoch_us0 is captured once, when acquireN starts, and never changes
\* until the cycle ends; a meta message handed to the transport carries
\* t0_us = epoch_us0, epoch_s = epoch_us0 \div 10^6 and an iso string whose six
\* fraction digits are epoch_us0 % 10^6; the end check reads the clock again
\* and changes none of epoch_us0, the four buffers or the interval sum.
C15_TimestampCoherence ==
  /\ [](\A j \in 1..Len(sent) :
          sent[j].type = "meta" =>
             /\ sent[j].t0_us = epoch_us0
             /\ Len(sent[j].iso) = 27
             /\ SubSeq(sent[j].iso, 20, 20) = "." /\ SubSeq(sent[j].iso, 27, 27) = "Z"
             /\ BigTrim(BigAdd(BigMulSmall(BigOfNat(sent[j].epoch_s), 1000000),
                               BigOfNat(ParseDigits(SubSeq(sent[j].iso, 21, 26), 1, 0))))
                  = BigTrim(epoch_us0)
             /\ ParseDigits(SubSeq(sent[j].iso, 21, 26), 1, 0) < 1000000)
  /\ [][/\ (pc \notin {"acquireN", "deep_sleep", "restarted"}) => epoch_us0' = epoch_us0
        /\ (pc = "acquireN" /\ pc' = "sampling") => "gettimeofday" \in calls'
        /\ (pc = "sampling") => "gettimeofday" \notin calls'
        /\ (pc = "validate") =>
              /\ "gettimeofday" \in calls'
              /\ epoch_us_end_now' = env.end_now
              /\ UNCHANGED <<dt_us_buf, ax_mg_buf, ay_mg_buf, az_mg_buf, dt_sum_us>>
        /\ (pc \in PublishPcs \cup {"gate"}) => UNCHANGED <<t0_s, iso_us>>]_vars

\* the clock read at the end differs from epoch_us0 and the meta message
\* carries the values of epoch_us0
C15_Witness ==
  /\ pc = "deep_sleep"
  /\ Len(sent) >= 1
  /\ sent[1].type = "meta"
  /\ epoch_us0 = EpochUs(1790004294, 967419)
  /\ epoch_us_end_now = EpochUs(1790000000, 123)
  /\ sent[1].epoch_s = 1790004294
  /\ sent[1].iso = "2026-09-21T15:24:54.967419Z"

\* C16: a blob step whose map (payload of 2(N-1) or 2N bytes plus overhead)
\* does not fit the 1400-byte buffer reports failure and hands nothing to the
\* transport; a blob that is handed over is whole; either way setup() moves
\* on to the next message.
C16_CleanEncodingFailure ==
  [][(pc \in {"publishDt", "publishX", "publishY", "publishZ"}) =>
       LET e    == pub_log'[Len(pub_log')]
           plen == IF pc = "publishDt" THEN 2 * (N - 1) ELSE 2 * N
           fits == BlobEncodedSize([type |-> e.type, id |-> id_msg, idx |-> 0, parts |-> 1,
                                    key |-> IF pc = "publishDt" THEN "dt" ELSE "a",
                                    payload |-> [k \in 1..plen |-> 0]]) <= BLOB_BUF_SIZE
       IN  /\ Len(pub_log') = Len(pub_log) + 1
           /\ e.encoded = fits
           /\ ~fits => /\ sent' = sent
                       /\ ~e.ok
                       /\ "mqtt.publish" \notin calls'
           /\ fits => /\ Len(sent') = Len(sent) + 1
                      /\ SubSeq(sent', 1, Len(sent)) = sent
                      /\ sent'[Len(sent')].type = e.type
                      /\ Len(sent'[Len(sent')].payload) = plen
           /\ pc' \in PublishPcs \ {pc}]_vars

\* 700 samples: the four blobs do not fit, all four were attempted, only the
\* meta message went out
C16_Witness ==
  /\ pc = "deep_sleep"
  /\ N = 700
  /\ Len(pub_log) = 5
  /\ \A k \in 2..5 : ~pub_log[k].encoded
  /\ Len(sent) = 1

\* C17: with n = 4, fs = 100, threshold = 10.78 and every sample ax = 0,
\* ay = 0, az = 9801 mg (9800.665 mg as a 16-bit value), the rms is about
\* 9.807 m/s^2, below the threshold, no message is emitted and the cycle
\* sleeps.
C17_ScenarioA_AsStated ==
  (/\ pc \in PublishPcs \cup {"deep_sleep"}
   /\ N = 4 /\ cfg.fs_hz = 100 /\ cfg.mag_rms_threshold = 10780000
   /\ \A k \in 0..3 : ax_mg_buf[k] = 0 /\ ay_mg_buf[k] = 0 /\ az_mg_buf[k] = 9801)
  => /\ mag_rms \in 9806000..9808000
     /\ mag_rms < cfg.mag_rms_threshold
     /\ pc = "deep_sleep"
     /\ sent = <<>> /\ pub_log = <<>>

\* C17, amended: the same with every sample az = 1000 mg, which is 1 g.
C17_ScenarioA ==
  (/\ pc \in PublishPcs \cup {"deep_sleep"}
   /\ N = 4 /\ cfg.fs_hz = 100 /\ cfg.mag_rms_threshold = 10780000
   /\ \A k \in 0..3 : ax_mg_buf[k] = 0 /\ ay_mg_buf[k] = 0 /\ az_mg_buf[k] = 1000)
  => /\ mag_rms \in 9806000..9808000
     /\ mag_rms < cfg.mag_rms_threshold
     /\ pc = "deep_sleep"
     /\ sent = <<>> /\ pub_log = <<>>

C17_Witness ==
  /\ pc = "deep_sleep"
  /\ N = 4 /\ cfg.fs_hz = 100 /\ cfg.mag_rms_threshold = 10780000
  /\ \A k \in 0..3 : ax_mg_buf[k] = 0 /\ ay_mg_buf[k] = 0 /\ az_mg_buf[k] = 1000
  /\ mag_rms = 9806650
  /\ sent = <<>>
  /\ sleep_for = cfg.sleep_s

\* C18: the two bytes put_i16_le writes for v in -32768..32767, read back as
\* a little-endian two's-complement 16-bit integer, give v; the two bytes
\* put_u16_le writes for v in 0..65535, read back little-endian, give v.
C18_RoundTrip ==
  (pc = "returned" /\ arg.fn \in {"PackU16", "PackI16"}) =>
     /\ DOMAIN ret = 0..511
     /\ \A k \in 0..255 :
          LET u == ret[2 * k] + 256 * ret[2 * k + 1]
          IN  /\ ret[2 * k] \in 0..255 /\ ret[2 * k + 1] \in 0..255
              /\ arg.fn = "PackU16" => u = arg.base + k
              /\ arg.fn = "PackI16" => (IF u >= 32768 THEN u - 65536 ELSE u) = arg.base + k

\* the buffer that starts at -32768: the first entry is packed as 00 80
C18_Witness ==
  /\ pc = "returned"
  /\ arg = [fn |-> "PackI16", base |-> -32768]
  /\ ret[0] = 0 /\ ret[1] = 128
  /\ ret[510] = 255 /\ ret[511] = 128

\* C19: every blob handed to the transport has a payload of 2(N-1) bytes (dt)
\* or 2N bytes (x, y, z), N being the n of the cycle's meta message; bytes 2i
\* and 2i+1 of the payload are the low and the high byte of entry i of the
\* interval buffer or of the axis buffer (two's complement), in sample order.
C19_PayloadLayout ==
  \A j \in 1..Len(sent) :
     /\ sent[j].type = "meta" => sent[j].n = N
     /\ sent[j].type \in BlobTypes =>
          LET src == CASE sent[j].type = "dt" -> dt_us_buf
                       [] sent[j].type = "x" -> ax_mg_buf
                       [] sent[j].type = "y" -> ay_mg_buf
                       [] OTHER -> az_mg_buf
              cnt == IF sent[j].type = "dt" THEN N - 1 ELSE N
          IN  /\ Len(sent[j].payload) = 2 * cnt
              /\ \A k \in 0..(cnt - 1) :
                   LET u == IF src[k] < 0 THEN src[k] + 65536 ELSE src[k]
                   IN  /\ sent[j].payload[2 * k + 1] = u % 256
                       /\ sent[j].payload[2 * k + 2] = u \div 256

\* all five messages out; sample 1 of the x axis is negative and its high
\* byte has the sign bit set
C19_Witness ==
  /\ pc = "deep_sleep"
  /\ Len(sent) = 5
  /\ sent[1].n = N
  /\ Len(sent[2].payload) = 2 * (N - 1)
  /\ Len(sent[3].payload) = 2 * N
  /\ ax_mg_buf[1] < 0
  /\ sent[3].payload[4] >= 128
  /\ dt_us_buf[0] # dt_us_buf[1]

\* C20: two sessions of the same device whose epoch_us0 differ by a multiple
\* of 2^32 (equal low 32 bits) get the same session id, whatever the upper
\* bits are; the id is made of the device id and the epoch only.
C20_IdDeterministic ==
  (pc = "returned" /\ arg.fn = "makeIdMsg") =>
     LET lo   == IF BigLess(arg.a, arg.b) THEN arg.a ELSE arg.b
         hi   == IF BigLess(arg.a, arg.b) THEN arg.b ELSE arg.a
         diff == BigTrim(BigSub(hi, lo))
     IN  /\ (\E k \in 0..2 : diff = BigTrim(BigMulSmall(Two32, k))) => ret[1] = ret[2]
         /\ Len(ret[1]) <= ID_MSG_LEN - 1
         /\ LET m == Min2(Len(arg.dev), ID_MSG_LEN - 1)
            IN  SubSeq(ret[1], 1, m) = SubSeq(arg.dev, 1, m)

\* epochs 2^32 us apart, one id
C20_Witness ==
  /\ pc = "returned"
  /\ arg.fn = "makeIdMsg"
  /\ arg.dev = "node7"
  /\ arg.a = EpochUs(1790000000, 123)
  /\ arg.b = EpochUs(1790004294, 967419)
  /\ ret = <<"node7-3659915387", "node7-3659915387">>

C23_ConstantRms_AsStated ==
  (pc = "returned" /\ arg.fn = "computeMagRms" /\ arg.az \in {9800, 9801})
  => ret \in 9805650..9807650

\* C23, amended: for every n >= 1 the constant waveform (0, 0, 1000 mg), which
\* is 1 g, gives 9.80665 m/s^2 within 1e-3.
C23_ConstantRms ==
  (pc = "returned" /\ arg.fn = "computeMagRms" /\ arg.az = 1000)
  => ret \in 9805650..9807650

C23_Witness ==
  /\ pc = "returned"
  /\ arg = [fn |-> "computeMagRms", n |-> SAMPLE_BUF_LEN, az |-> 1000]
  /\ ret = 9806650

\* C26: whenever the sampler starts, and from then to the end of the cycle,
\* cfg.n_samples is in 10..2000 and cfg.fs_hz in 50..2000, whatever
\* /config.json held and whatever was provisioned before; so the period
\* divides by a nonzero rate, every index written into the sample, interval
\* and packing buffers is inside them, and acquireN never fails on N < 2.
C26_SamplerConfigInRange ==
  /\ pc \in {"acquireN", "sampling", "validate", "gate"} \cup PublishPcs =>
        /\ cfg.n_samples \in 10..SAMPLE_BUF_LEN
        /\ cfg.fs_hz \in 50..2000
  /\ pc \in {"sampling", "validate", "gate"} \cup PublishPcs =>
        /\ N = cfg.n_samples
        /\ period_us = 1000000 \div cfg.fs_hz
        /\ period_us \in 500..20000
  /\ DOMAIN ax_mg_buf \subseteq 0..(SAMPLE_BUF_LEN - 1)
  /\ DOMAIN ay_mg_buf \subseteq 0..(SAMPLE_BUF_LEN - 1)
  /\ DOMAIN az_mg_buf \subseteq 0..(SAMPLE_BUF_LEN - 1)
  /\ DOMAIN dt_us_buf \subseteq 0..(SAMPLE_BUF_LEN - 1)
  /\ DOMAIN dt_bytes \subseteq 0..(2 * SAMPLE_BUF_LEN - 1)
  /\ DOMAIN x_bytes \subseteq 0..(2 * SAMPLE_BUF_LEN - 1)
  /\ DOMAIN y_bytes \subseteq 0..(2 * SAMPLE_BUF_LEN - 1)
  /\ DOMAIN z_bytes \subseteq 0..(2 * SAMPLE_BUF_LEN - 1)
  /\ fail_at # "acquireN"

\* the sampler runs on a file the portal wrote from a form asking for 5
\* samples, which it stored as 10
C26_Witness ==
  /\ pc = "sampling"
  /\ cfg.client_id = "node9"
  /\ fs_config.doc.n_samples = <<10>>
  /\ N = 10
  /\ i = 3

\* C27: every meta message handed to the transport carries ntp = 1, and no
\* cycle is past the time synchronisation (connecting to the broker,
\* acquiring, publishing) without syncTimeNTP having succeeded in that cycle.
C27_MetaNtpOne ==
  /\ \A k \in 1..Len(sent) : sent[k].type = "meta" => sent[k].ntp = 1
  /\ pc \in {"connectMQTT", "initLIS331", "acquireN", "sampling", "validate", "gate"}
           \cup PublishPcs => ntp_ok
  /\ acq_starts > 0 => ntp_ok
  /\ fail_at = "syncTimeNTP" => ~ntp_ok /\ acq_starts = 0 /\ sent = <<>>

C27_Witness ==
  /\ pc = "publishDt"
  /\ Len(sent) = 1
  /\ sent[1].type = "meta"
  /\ sent[1].ntp = 1
  /\ ntp_ok

\* C28: a cycle that enters the provisioning portal never connects, acquires,
\* publishes or sleeps. The portal ends in a restart, at once when a save
\* succeeded and through the failure signal when it timed out, and
\* portal_saved becomes true only in a save request that leaves wifi_ssid
\* and mqtt_host non-empty and whose configuration file was written.
C28_PortalEndsInRestart ==
  /\ [](pc = "portal" \/ fail_at = "portal" =>
          /\ pc \in {"portal", "failAndRestart", "restarted"}
          /\ ~ntp_ok /\ acq_starts = 0 /\ sent = <<>> /\ pub_log = <<>> /\ sleep_for = 0)
  /\ [][/\ (pc = "portal" => pc' \in {"portal", "failAndRestart", "restarted"})
        /\ (pc = "portal" /\ pc' = "restarted" => portal_saved)
        /\ (pc = "portal" /\ pc' = "failAndRestart" => ~portal_saved /\ fail_at' = "portal")
        /\ (pc = "failAndRestart" /\ fail_at = "portal" =>
              pc' \in {"failAndRestart", "restarted"})
        /\ (~portal_saved /\ portal_saved' =>
              /\ pc = "portal"
              /\ cfg'.wifi_ssid # "" /\ cfg'.mqtt_host # ""
              /\ fs_config' = [kind |-> "json", doc |-> DocOfCfg(cfg')])]_vars

\* the portal was left after a successful save of the second form
C28_Witness ==
  /\ pc = "restarted"
  /\ portal_saved
  /\ cfg.client_id = "node9"
  /\ fs_config = [kind |-> "json", doc |-> DocOfCfg(cfg)]
  /\ fail_at = "none"

\* C29: for every device id the configuration accepts, two sessions whose
\* epoch_us0 differ in their low 32 bits get different session ids.
C29_IdsSeparate ==
  (pc = "returned" /\ arg.fn = "makeIdMsg" /\ Low32(arg.a) # Low32(arg.b))
  => ret[1] # ret[2]

\* C25: a save request leaves every configuration field that it does not
\* carry, or carries empty after trimming, at its value in memory, whatever
\* the other fields hold; the fields submitted non-empty take the submitted
\* value, the numeric ones clamped to their range.
C25_EmptyMeansKeep ==
  [][(pc = "portal" /\ pc' = "portal") =>
       \A form \in Forms :
         cfg' = ApplyForm(cfg, form) =>
           /\ \A k \in CfgKeys : ~Provided(form[k]) => cfg'[k] = cfg[k]
           /\ \A k \in {"client_id", "wifi_ssid", "mqtt_host"} :
                 Provided(form[k]) => cfg'[k] = Trim(form[k][1])
           /\ Provided(form.range_g) => cfg'.range_g \in {6, 12, 24}
           /\ Provided(form.ntp_timeout_s) => cfg'.ntp_timeout_s \in 3..60
           /\ Provided(form.n_samples) => cfg'.n_samples \in 10..2000
           /\ Provided(form.fs_hz) => cfg'.fs_hz \in 50..2000
           /\ Provided(form.mag_rms_threshold) => cfg'.mag_rms_threshold \in 0..50000000
           /\ Provided(form.sleep_s) => cfg'.sleep_s \in 5..86400]_vars

\* C24: saving the configuration replaces /config.json atomically. When a
\* configuration file existed, then after every step, whatever the outcome of
\* saveConfigToFS, the file is either the complete previous one or the
\* complete new one, never missing or partial.
C24_AtomicSave ==
  [][(fs_config.kind = "json") =>
       \/ fs_config' = fs_config
       \/ fs_config' = [kind |-> "json", doc |-> DocOfCfg(cfg')]]_vars

====
